---- MODULE Spec2Model ----
(***************************************************************************)
(* Interview session state machines of the pre-screening tool: the         *)
(* first-visit interview (routers/medical.py) and the follow-up interview  *)
(* (routers/followup.py), on top of the patient-session store              *)
(* (services/session_service.py).  Every handler is one action; the        *)
(* outcome it returns to the client is kept in the variable last.          *)
(***************************************************************************)
EXTENDS Integers, Sequences, FiniteSets, TLC

\* ------------------------------------------------------------ values

None == "None"

ACTIVE == "active"
COMPLETED == "completed"
ABORTED == "aborted"
InterviewStatus == {ACTIVE, COMPLETED, ABORTED}

\* Session ids are uuid4 strings; the model has two of them.
SessionIds == {"s1", "s2"}

\* The object a call of an async def returns when it is not awaited.
Coroutine == "coroutine"

\* ------------------------------------------------------------ texts

\* routers/medical.py
MedFallbackFirst == "What is your main health concern or symptom that brought you here today?"
MedDefaultAsked == "What is your main health concern today?"
MedFallbackNext == "Can you tell me more about your symptoms?"
\* services/medical_expert_service.py
MedServiceFallback == "Could you please tell me about your main health concern today?"
\* routers/followup.py
FuFallbackFirst == "How are you feeling since your last visit?"
FuFallbackNext == "Can you tell me more about how you've been feeling?"
\* services/followup_service.py
FuEmptyDefault == "Can you tell me more about your current condition?"
FuInterviewComplete == "INTERVIEW_COMPLETE"
fallback_questions ==
    << "How have you been feeling since your last visit?",
       "Are you taking your prescribed medications as directed?",
       "Have you noticed any changes in your condition?",
       "Are you experiencing any new symptoms?",
       "How has your treatment been working for you?",
       "Is there anything specific that's been bothering you?" >>

\* Texts the generative backend may produce (it may produce any text; these
\* stand for the classes the routers tell apart).
GenTreatment == "Did the medicine help?"
GenSymptom == "Do you still feel dizzy?"
GenBoth == "How do you feel after the treatment?"
GenNeutral == "Where is the pain located?"
GenReady == "ASSESSMENT_READY"
GenReadyInText == "Thank you. ASSESSMENT_READY - enough information."
GenCompleteInText == "INTERVIEW_COMPLETE - no further questions."

\* The keywords the routers look for that occur in text.lower().
LowerKeywords(text) ==
    CASE text = MedFallbackFirst -> {"symptom"}
      [] text = MedFallbackNext -> {"symptom"}
      [] text = FuFallbackFirst -> {"feel"}
      [] text = FuFallbackNext -> {"feel"}
      [] text = fallback_questions[1] -> {"feel"}
      [] text = fallback_questions[2] -> {"medic"}
      [] text = fallback_questions[4] -> {"symptom"}
      [] text = fallback_questions[5] -> {"treatment"}
      [] text = GenTreatment -> {"medic"}
      [] text = GenSymptom -> {"feel"}
      [] text = GenBoth -> {"feel", "treatment"}
      [] text = "I don't know" -> {"don't know"}
      [] text = "I DON'T KNOW" -> {"don't know"}
      [] text = "Not Sure" -> {"not sure"}
      [] text = " not sure " -> {"not sure"}
      [] OTHER -> {}

\* The control tokens that occur in text itself (the test is case-sensitive).
Tokens(text) ==
    CASE text = GenReady -> {"ASSESSMENT_READY"}
      [] text = GenReadyInText -> {"ASSESSMENT_READY"}
      [] text = FuInterviewComplete -> {"INTERVIEW_COMPLETE"}
      [] text = GenCompleteInText -> {"INTERVIEW_COMPLETE"}
      [] OTHER -> {}

\* str.strip() on the answers of the model.
Strip(text) ==
    CASE text = " " -> ""
      [] text = "   " -> ""
      [] text = " not sure " -> "not sure"
      [] text = " yes " -> "yes"
      [] OTHER -> text

\* Python's truth value of a str / Optional[str].
Truthy(text) == text # None /\ text # ""

Min(a, b) == IF a <= b THEN a ELSE b

\* ------------------------------------------------------------ state

VARIABLES
    sessions,                     \* session_service: the stored patient sessions
    issued,                       \* the session ids uuid4 has handed out so far
    interview_sessions,           \* routers/medical.py: first-visit interviews
    followup_interview_sessions,  \* routers/followup.py: follow-up interviews
    medical_expert,               \* routers/medical.py: the service, or None
    start_requests,               \* first-visit interviews the client asked to start
    last,                         \* the outcome of the last request
    tasks,                        \* the submit-answer calls the server is handling
    evaluated                     \* the last service function applied on its own

vars == << sessions, issued, interview_sessions, followup_interview_sessions,
           medical_expert, start_requests, last, tasks, evaluated >>

\* InterviewSession(...) as both start handlers construct it.
InterviewSession(maxq, maxu) ==
    [ status |-> ACTIVE,
      conversation_history |-> << >>,
      question_number |-> 1,
      unknown_count |-> 0,
      max_questions |-> maxq,
      max_unknowns |-> maxu,
      last_question_asked |-> None ]

\* The InterviewSession field defaults.
DefaultMaxQuestions == 6
DefaultMaxUnknowns == 2
\* What start_followup_interview passes, and submit_followup_answer compares with.
FollowupMaxQuestions == 6
FollowupMaxUnknowns == 3
FollowupEarlyThreshold == 4

QuestionAnswer(q, a) == [ question |-> q, answer |-> Strip(a) ]

\* The backend reply of a request that has none to wait for.
NoBackend == [ kind |-> "unused", question |-> "" ]

\* The outcome of a request: the HTTP status and the response model's fields,
\* with what the request found (pre) and what the generative backend was
\* going to answer during it (reply, kept for the first-visit requests).
Outcome(op, s, http, q, qn, complete, pct, generated, pre, reply) ==
    [ op |-> op, sid |-> s, http |-> http, question |-> q,
      question_number |-> qn, interview_complete |-> complete,
      completion_percent |-> pct, generated |-> generated,
      pre |-> pre, reply |-> reply ]

Failure(op, s, http, pre, reply) ==
    Outcome(op, s, http, None, 0, FALSE, 0, FALSE, pre, reply)

\* A Python dict is a function on its keys.
EmptyDict == [k \in {} |-> None]
\* One object stored under every key, instead of one object per key.
PutShared(dict, k, v) == [x \in (DOMAIN dict) \cup {k} |-> v]
Put(dict, k, v) == [x \in (DOMAIN dict) \cup {k} |-> IF x = k THEN v ELSE dict[x]]
Del(dict, k) == [x \in (DOMAIN dict) \ {k} |-> dict[x]]

\* get_session, awaited: the stored session, None when unknown or expired.
get_session(s) == IF s \in DOMAIN sessions THEN sessions[s] ELSE None

HasSession(s) == s \in DOMAIN sessions
HasPatient(s) == HasSession(s) /\ sessions[s].patient_info

\* What a request found: the interview's status and question number, and
\* whether the stored session resolves with patient info.
StatusOf(table, s) == IF s \in DOMAIN table THEN table[s].status ELSE None
Pre(table, s) ==
    [ status |-> StatusOf(table, s),
      question_number |-> IF s \in DOMAIN table THEN table[s].question_number ELSE 0,
      patient |-> HasPatient(s) ]

\* min((question_number / max) * 100, 100), rounded down; it is 100 exactly
\* when question_number >= max.
CompletionPercentOfAnswered(qn, maxq) == Min(((qn - 1) * 100) \div maxq, 100)
CompletionPercent(qn, maxq) == Min((qn * 100) \div maxq, 100)

NoPre == [ status |-> None, question_number |-> 0, patient |-> FALSE ]

NotEvaluated == [ fn |-> "none" ]

\* The calls of submit_followup_answer the server can be handling at once, and
\* where each one is: no call, a request received and waiting for the event
\* loop, or the handler stopped at its await.
TaskIds == { "t1", "t2" }
IdleTask == [ pc |-> "idle", sid |-> None, answer |-> "" ]

Init ==
    /\ sessions = EmptyDict
    /\ issued = {}
    /\ interview_sessions = EmptyDict
    /\ followup_interview_sessions = EmptyDict
    /\ medical_expert \in {None, "MedicalExpertService"}
    /\ start_requests = {}
    /\ last = Failure("none", None, 0, NoPre, NoBackend)
    /\ tasks = [t \in TaskIds |-> IdleTask]
    /\ evaluated = NotEvaluated

\* ------------------------------------------------------------ the store

\* PreScreeningService.collect_prescreening_data: the record built from the
\* visit type and the assessment of one generate-assessment call; NoRecord is
\* a session without the "prescreening_data" key.
collect_prescreening_data(visit_type, possible_diagnosis) ==
    [ visit_type |-> visit_type, possible_diagnosis |-> possible_diagnosis ]
NoRecord == collect_prescreening_data(None, None)

\* What the assessment of an interview can say.
Stable == "Stable; continue the current treatment"
Worsening == "Symptoms worsening; review the medication"

\* create_session: a fresh uuid4 id, no patient info yet.
create_session(s) ==
    /\ s \notin issued
    /\ issued' = issued \cup {s}
    /\ sessions' = Put(sessions, s, [ patient_info |-> FALSE,
                                      consultation_data |-> FALSE,
                                      prescreening_data |-> NoRecord ])
    /\ UNCHANGED << interview_sessions, followup_interview_sessions,
                    medical_expert, tasks, evaluated, start_requests, last >>

\* store_session_data on a session that resolves: update_session merges the
\* patient info and the consultation data (None when the request omits it).
store_session_data(s, consult) ==
    /\ HasSession(s)
    /\ sessions' = [sessions EXCEPT ![s].patient_info = TRUE,
                                    ![s].consultation_data = consult]
    /\ UNCHANGED << issued, interview_sessions, followup_interview_sessions,
                    medical_expert, tasks, evaluated, start_requests, last >>

\* delete_session, and the expiry that get_session applies on lookup.
delete_session(s) ==
    /\ HasSession(s)
    /\ sessions' = Del(sessions, s)
    /\ UNCHANGED << issued, interview_sessions, followup_interview_sessions,
                    medical_expert, tasks, evaluated, start_requests, last >>

\* ------------------------------------------------------------ follow-up

\* What the backend call inside generate_followup_question came back with:
\* JSON carrying a "question", text that is not JSON, or nothing (no
\* response, an exception, or text too long to be a question).
JsonReply(q) == [ kind |-> "json", question |-> q ]
TextReply(q) == [ kind |-> "text", question |-> q ]
NoReply == [ kind |-> "none", question |-> "" ]

\* FollowupService.generate_followup_question: it never raises.
generate_followup_question(out, question_number) ==
    IF out.kind = "json"
    THEN IF "INTERVIEW_COMPLETE" \in Tokens(out.question)
         THEN FuInterviewComplete
         ELSE IF Truthy(out.question) THEN out.question ELSE FuEmptyDefault
    ELSE IF out.kind = "text" /\ Truthy(out.question)
    THEN out.question
    ELSE fallback_questions[Min(question_number - 1, Len(fallback_questions) - 1) + 1]

\* "don't know" in answer.lower() or "not sure" in answer.lower()
IsUnknown(a) ==
    "don't know" \in LowerKeywords(a) \/ "not sure" \in LowerKeywords(a)

\* RecordAnswer with a slip: an uncertain answer is counted but not appended.
RecordAnswerUnknownDropped(sess, a, default_question) ==
    LET current_question ==
            IF Truthy(sess.last_question_asked)
            THEN sess.last_question_asked ELSE default_question
    IN IF IsUnknown(a)
       THEN [ sess EXCEPT !.unknown_count = @ + 1 ]
       ELSE [ sess EXCEPT
                !.conversation_history = Append(@, QuestionAnswer(current_question, a)) ]

\* The Q&A pair is appended under the last question asked (or the given
\* default), then the unknown counter is raised for an uncertain answer.
RecordAnswer(sess, a, default_question) ==
    LET current_question ==
            IF Truthy(sess.last_question_asked)
            THEN sess.last_question_asked ELSE default_question
    IN [ sess EXCEPT
           !.conversation_history = Append(@, QuestionAnswer(current_question, a)),
           !.unknown_count = IF IsUnknown(a) THEN @ + 1 ELSE @ ]

AnyQuestion(sess, keywords) ==
    \E i \in 1..Len(sess.conversation_history) :
        LowerKeywords(sess.conversation_history[i].question) \cap keywords # {}

has_treatment_info(sess) == AnyQuestion(sess, {"medic", "treatment"})
has_symptom_info(sess) == AnyQuestion(sess, {"feel", "symptom"})

\* early_completion_ready with a slip: the threshold is one question late.
early_completion_ready_late(sess) ==
    /\ sess.question_number >= FollowupEarlyThreshold + 1
    /\ has_treatment_info(sess)
    /\ has_symptom_info(sess)

early_completion_ready(sess) ==
    /\ sess.question_number >= FollowupEarlyThreshold
    /\ has_treatment_info(sess)
    /\ has_symptom_info(sess)

\* FollowupStop with a slip: the question budget is not tested.
FollowupStopNoBudget(sess) ==
    \/ sess.unknown_count >= FollowupMaxUnknowns
    \/ early_completion_ready(sess)

\* FollowupStop with a slip: > for >= on the question budget.
FollowupStopAfterBudget(sess) ==
    \/ sess.question_number > FollowupMaxQuestions
    \/ sess.unknown_count >= FollowupMaxUnknowns
    \/ early_completion_ready(sess)

\* The stopping conditions of submit_followup_answer, on the session with the
\* answer recorded.
FollowupStop(sess) ==
    \/ sess.question_number >= FollowupMaxQuestions
    \/ sess.unknown_count >= FollowupMaxUnknowns
    \/ early_completion_ready(sess)

\* FollowupSubmitRejection with a slip: the status check is missing.
FollowupSubmitRejectionNoStatus(s, a) ==
    IF a = "" THEN 422
    ELSE IF s \notin DOMAIN followup_interview_sessions THEN 404
    ELSE IF ~HasSession(s) THEN 404
    ELSE 0

\* The checks of submit_followup_answer before the answer is recorded: the
\* HTTP status it fails with, 0 when the answer is accepted.
FollowupSubmitRejection(s, a) ==
    IF a = "" THEN 422
    ELSE IF s \notin DOMAIN followup_interview_sessions THEN 404
    ELSE IF followup_interview_sessions[s].status # ACTIVE THEN 400
    ELSE IF ~HasSession(s) THEN 404
    ELSE 0

\* The next question of submit_followup_answer: evaluating the generator's
\* arguments raises when the stored session has no consultation data, and the
\* except branch substitutes the fixed text.
FollowupArgumentsRaise(s) == ~sessions[s].consultation_data

\* FollowupNextQuestion with a slip: the except branch substitutes nothing.
FollowupNextQuestionNoFallback(s, out, question_number) ==
    IF FollowupArgumentsRaise(s)
    THEN None
    ELSE generate_followup_question(out, question_number)

FollowupNextQuestion(s, out, question_number) ==
    IF FollowupArgumentsRaise(s)
    THEN FuFallbackNext
    ELSE generate_followup_question(out, question_number)

FollowupFrame ==
    UNCHANGED << sessions, issued, interview_sessions, medical_expert, tasks, evaluated,
                 start_requests >>

start_followup_interview(s, out) ==
    LET op == "followup/start-interview"
        pre == Pre(followup_interview_sessions, s)
    IN
    /\ FollowupFrame
    /\ IF ~HasSession(s)
       THEN /\ last' = Failure(op, s, 404, pre, NoBackend)
            /\ UNCHANGED followup_interview_sessions
       ELSE IF ~sessions[s].patient_info
       THEN /\ last' = Failure(op, s, 400, pre, NoBackend)
            /\ UNCHANGED followup_interview_sessions
       ELSE LET first_question == generate_followup_question(out, 1)
                interview_session ==
                    [ InterviewSession(FollowupMaxQuestions, FollowupMaxUnknowns)
                        EXCEPT !.last_question_asked = first_question ]
            IN /\ followup_interview_sessions' =
                      Put(followup_interview_sessions, s, interview_session)
               /\ last' = Outcome(op, s, 200, first_question, 1, FALSE, 0,
                                  TRUE, pre, NoBackend)

submit_followup_answer(s, a, out) ==
    LET op == "followup/submit-answer"
        pre == Pre(followup_interview_sessions, s)
        rejected == FollowupSubmitRejection(s, a)
    IN
    /\ FollowupFrame
    /\ IF rejected # 0
       THEN /\ last' = Failure(op, s, rejected, pre, NoBackend)
            /\ UNCHANGED followup_interview_sessions
       ELSE LET recorded == RecordAnswer(followup_interview_sessions[s], a,
                                         FuFallbackFirst)
            IN IF FollowupStop(recorded)
               THEN /\ followup_interview_sessions' =
                          Put(followup_interview_sessions, s,
                              [recorded EXCEPT !.status = COMPLETED])
                    /\ last' = Outcome(op, s, 200, None, recorded.question_number,
                                       TRUE, 100, FALSE, pre, NoBackend)
               ELSE LET question_number == recorded.question_number + 1
                        next_question ==
                            FollowupNextQuestion(s, out, question_number)
                    IN /\ followup_interview_sessions' =
                              Put(followup_interview_sessions, s,
                                  [recorded EXCEPT
                                     !.question_number = question_number,
                                     !.last_question_asked = next_question])
                       /\ last' = Outcome(op, s, 200, next_question,
                                          question_number, FALSE,
                                          CompletionPercent(question_number,
                                                            FollowupMaxQuestions),
                                          ~FollowupArgumentsRaise(s), pre, NoBackend)

\* An await hands the event loop to other requests only if the awaited
\* coroutine itself waits on the loop.  get_session is an async def whose body
\* has no await (its database and dictionary accesses are synchronous calls),
\* and generate_followup_question is a plain function that is called, not
\* awaited.
SuspendsAlways(callee) == TRUE
Suspends(callee) == FALSE

\* The calls that hold the event loop: begun and not suspended.
OnLoop == { t \in TaskIds : tasks[t].pc = "awaiting" /\ ~Suspends("get_session") }
LoopFree == OnLoop = {}

TaskFrame ==
    UNCHANGED << sessions, issued, interview_sessions, medical_expert, evaluated,
                 start_requests >>

\* A POST /api/followup/submit-answer reaches the server.
receive_followup_answer(t, s, a) ==
    /\ tasks[t].pc = "idle"
    /\ tasks' = [tasks EXCEPT ![t] = [ pc |-> "received", sid |-> s, answer |-> a ]]
    /\ UNCHANGED << followup_interview_sessions, last >>
    /\ TaskFrame

\* submit_followup_answer up to `await get_session(...)`: the interview is
\* looked up and must be ACTIVE.
begin_followup_answer(t) ==
    LET op == "followup/submit-answer"
        s == tasks[t].sid
        pre == Pre(followup_interview_sessions, s)
    IN
    /\ tasks[t].pc = "received"
    /\ LoopFree
    /\ TaskFrame
    /\ UNCHANGED followup_interview_sessions
    /\ IF s \notin DOMAIN followup_interview_sessions
       THEN /\ last' = Failure(op, s, 404, pre, NoBackend)
            /\ tasks' = [tasks EXCEPT ![t] = IdleTask]
       ELSE IF followup_interview_sessions[s].status # ACTIVE
       THEN /\ last' = Failure(op, s, 400, pre, NoBackend)
            /\ tasks' = [tasks EXCEPT ![t] = IdleTask]
       ELSE /\ tasks' = [tasks EXCEPT ![t].pc = "awaiting"]
            /\ UNCHANGED last

\* submit_followup_answer from the await to its return: the answer is
\* appended, the stop conditions are tested, and the interview is completed or
\* continued with the next question.
resume_followup_answer(t, out) ==
    LET op == "followup/submit-answer"
        s == tasks[t].sid
        a == tasks[t].answer
        pre == Pre(followup_interview_sessions, s)
    IN
    /\ tasks[t].pc = "awaiting"
    /\ OnLoop \subseteq {t}
    /\ TaskFrame
    /\ tasks' = [tasks EXCEPT ![t] = IdleTask]
    /\ IF ~HasSession(s)
       THEN /\ last' = Failure(op, s, 404, pre, NoBackend)
            /\ UNCHANGED followup_interview_sessions
       ELSE LET recorded == RecordAnswer(followup_interview_sessions[s], a,
                                         FuFallbackFirst)
            IN IF FollowupStop(recorded)
               THEN /\ followup_interview_sessions' =
                          Put(followup_interview_sessions, s,
                              [recorded EXCEPT !.status = COMPLETED])
                    /\ last' = Outcome(op, s, 200, None, recorded.question_number,
                                       TRUE, 100, FALSE, pre, NoBackend)
               ELSE LET question_number == recorded.question_number + 1
                        next_question ==
                            FollowupNextQuestion(s, out, question_number)
                    IN /\ followup_interview_sessions' =
                              Put(followup_interview_sessions, s,
                                  [recorded EXCEPT
                                     !.question_number = question_number,
                                     !.last_question_asked = next_question])
                       /\ last' = Outcome(op, s, 200, next_question,
                                          question_number, FALSE,
                                          CompletionPercent(question_number,
                                                            FollowupMaxQuestions),
                                          ~FollowupArgumentsRaise(s), pre, NoBackend)

get_followup_interview_status(s) ==
    LET op == "followup/interview"
        pre == Pre(followup_interview_sessions, s)
    IN
    /\ FollowupFrame
    /\ UNCHANGED followup_interview_sessions
    /\ IF s \notin DOMAIN followup_interview_sessions
       THEN last' = Failure(op, s, 404, pre, NoBackend)
       ELSE LET sess == followup_interview_sessions[s]
            IN last' = Outcome(op, s, 200, None, sess.question_number,
                               sess.status = COMPLETED,
                               CompletionPercent(sess.question_number,
                                                 FollowupMaxQuestions),
                               FALSE, pre, NoBackend)

\* generate_followup_assessment with a slip: the status test is missing.
generate_followup_assessment_any_status(s, collected, diagnosis) ==
    LET op == "followup/generate-assessment"
        pre == Pre(followup_interview_sessions, s)
    IN
    /\ UNCHANGED << issued, interview_sessions, followup_interview_sessions,
                    medical_expert, tasks, evaluated, start_requests >>
    /\ IF s \notin DOMAIN followup_interview_sessions
       THEN last' = Failure(op, s, 404, pre, NoBackend) /\ UNCHANGED sessions
       ELSE IF ~HasSession(s)
       THEN last' = Failure(op, s, 404, pre, NoBackend) /\ UNCHANGED sessions
       ELSE IF ~sessions[s].patient_info
       THEN last' = Failure(op, s, 400, pre, NoBackend) /\ UNCHANGED sessions
       ELSE /\ last' = Outcome(op, s, 200, None,
                               followup_interview_sessions[s].question_number,
                               TRUE, 100, FALSE, pre, NoBackend)
            /\ sessions' = IF collected
                           THEN [sessions EXCEPT ![s].prescreening_data =
                                     collect_prescreening_data("follow-up", diagnosis)]
                           ELSE sessions

\* generate_followup_assessment (routers/followup.py): the assessment of a
\* completed follow-up interview; FollowupService.generate_followup_assessment
\* never raises.  The pre-screening record is stored in the patient session
\* unless collecting it raises (collected = FALSE).
generate_followup_assessment(s, collected, diagnosis) ==
    LET op == "followup/generate-assessment"
        pre == Pre(followup_interview_sessions, s)
    IN
    /\ UNCHANGED << issued, interview_sessions, followup_interview_sessions,
                    medical_expert, tasks, evaluated, start_requests >>
    /\ IF s \notin DOMAIN followup_interview_sessions
       THEN last' = Failure(op, s, 404, pre, NoBackend) /\ UNCHANGED sessions
       ELSE IF followup_interview_sessions[s].status # COMPLETED
       THEN last' = Failure(op, s, 400, pre, NoBackend) /\ UNCHANGED sessions
       ELSE IF ~HasSession(s)
       THEN last' = Failure(op, s, 404, pre, NoBackend) /\ UNCHANGED sessions
       ELSE IF ~sessions[s].patient_info
       THEN last' = Failure(op, s, 400, pre, NoBackend) /\ UNCHANGED sessions
       ELSE /\ last' = Outcome(op, s, 200, None,
                               followup_interview_sessions[s].question_number,
                               TRUE, 100, FALSE, pre, NoBackend)
            /\ sessions' = IF collected
                           THEN [sessions EXCEPT ![s].prescreening_data =
                                     collect_prescreening_data("follow-up", diagnosis)]
                           ELSE sessions

\* ------------------------------------------------------------ first visit

\* get_session(...) as routers/medical.py calls it.  get_session is an async
\* def and both handlers call it without await, so what they hold is the
\* coroutine object: never None, never the stored dict.
get_session_not_awaited(s) == Coroutine

\* `if not session`
IsFalsy(obj) == obj = None

\* session.keys(), session.get(...): a coroutine object has neither.
RaisesAttributeError(obj) == obj = Coroutine

\* MedicalExpertService.generate_next_question: it catches its own failures
\* (an empty response among them) and returns its own fixed question.
generate_next_question(out) ==
    IF out.kind = "none" \/ (out.kind = "text" /\ ~Truthy(out.question))
    THEN MedServiceFallback
    ELSE out.question

\* The stopping conditions of submit_patient_answer, on the session with the
\* answer recorded.
MedicalStop(sess) ==
    \/ sess.question_number >= sess.max_questions
    \/ sess.unknown_count >= sess.max_unknowns

\* The checks of submit_patient_answer before get_session is called: the HTTP
\* status it fails with, 0 when it goes on.
MedicalSubmitRejection(s, a) ==
    IF a = "" THEN 422
    ELSE IF s \notin DOMAIN interview_sessions THEN 404
    ELSE IF interview_sessions[s].status # ACTIVE THEN 400
    ELSE 0

MedicalFrame ==
    UNCHANGED << sessions, issued, followup_interview_sessions, medical_expert, tasks, evaluated >>

start_medical_interview(s, out) ==
    LET op == "medical/start-interview"
        pre == Pre(interview_sessions, s)
        session == get_session_not_awaited(s)
    IN
    /\ MedicalFrame
    /\ start_requests' = IF pre.patient THEN start_requests \cup {s}
                                        ELSE start_requests
    /\ IF IsFalsy(session)
       THEN /\ last' = Failure(op, s, 404, pre, out)
            /\ UNCHANGED interview_sessions
       ELSE IF RaisesAttributeError(session)
       THEN \* session.keys() raises; `except Exception` answers 500
            /\ last' = Failure(op, s, 500, pre, out)
            /\ UNCHANGED interview_sessions
       ELSE IF ~sessions[s].patient_info
       THEN /\ last' = Failure(op, s, 400, pre, out)
            /\ UNCHANGED interview_sessions
       ELSE LET created == InterviewSession(DefaultMaxQuestions, DefaultMaxUnknowns)
                first_question ==
                    IF medical_expert = None
                    THEN MedFallbackFirst
                    ELSE generate_next_question(out)
                interview_session ==
                    IF medical_expert = None
                    THEN created
                    ELSE [created EXCEPT !.last_question_asked = first_question]
            IN /\ interview_sessions' = Put(interview_sessions, s, interview_session)
               /\ last' = Outcome(op, s, 200, first_question, 1, FALSE, 0,
                                  medical_expert # None, pre, out)

submit_patient_answer(s, a, out) ==
    LET op == "medical/submit-answer"
        pre == Pre(interview_sessions, s)
        rejected == MedicalSubmitRejection(s, a)
        session == get_session_not_awaited(s)
    IN
    /\ MedicalFrame
    /\ UNCHANGED start_requests
    /\ IF rejected # 0
       THEN /\ last' = Failure(op, s, rejected, pre, out)
            /\ UNCHANGED interview_sessions
       ELSE IF IsFalsy(session)
       THEN /\ last' = Failure(op, s, 404, pre, out)
            /\ UNCHANGED interview_sessions
       ELSE IF RaisesAttributeError(session)
       THEN \* session.get("patient_info") raises, uncaught: 500
            /\ last' = Failure(op, s, 500, pre, out)
            /\ UNCHANGED interview_sessions
       ELSE LET recorded == RecordAnswer(interview_sessions[s], a, MedDefaultAsked)
            IN IF MedicalStop(recorded)
               THEN /\ interview_sessions' =
                          Put(interview_sessions, s,
                              [recorded EXCEPT !.status = COMPLETED])
                    /\ last' = Outcome(op, s, 200, None, recorded.question_number,
                                       TRUE, 100, FALSE, pre, out)
               ELSE LET question_number == recorded.question_number + 1
                        next_question ==
                            IF medical_expert = None
                            THEN MedFallbackNext
                            ELSE generate_next_question(out)
                        asked ==
                            [recorded EXCEPT
                               !.question_number = question_number,
                               !.last_question_asked =
                                   IF medical_expert = None THEN @ ELSE next_question]
                    IN IF "ASSESSMENT_READY" \in Tokens(next_question)
                       THEN /\ interview_sessions' =
                                  Put(interview_sessions, s,
                                      [asked EXCEPT !.status = COMPLETED])
                            /\ last' = Outcome(op, s, 200, None, question_number,
                                               TRUE, 100, medical_expert # None, pre, out)
                       ELSE /\ interview_sessions' = Put(interview_sessions, s, asked)
                            /\ last' = Outcome(op, s, 200, next_question,
                                               question_number, FALSE,
                                               CompletionPercent(question_number,
                                                                 asked.max_questions),
                                               medical_expert # None, pre, out)

get_interview_status(s) ==
    LET op == "medical/interview"
        pre == Pre(interview_sessions, s)
    IN
    /\ MedicalFrame
    /\ UNCHANGED << start_requests, interview_sessions >>
    /\ IF s \notin DOMAIN interview_sessions
       THEN last' = Failure(op, s, 404, pre, NoBackend)
       ELSE LET sess == interview_sessions[s]
            IN last' = Outcome(op, s, 200, None, sess.question_number,
                               sess.status = COMPLETED,
                               CompletionPercent(sess.question_number,
                                                 sess.max_questions),
                               FALSE, pre, NoBackend)

\* generate_medical_assessment (routers/assessment.py): here get_session is
\* awaited.  generated = FALSE stands for a generate_final_assessment result
\* without an assessment, or an exception: both end in a 500.
generate_medical_assessment(s, generated, collected, visit_type, diagnosis) ==
    LET op == "assessment/generate"
        pre == Pre(interview_sessions, s)
    IN
    /\ UNCHANGED << issued, interview_sessions, followup_interview_sessions,
                    medical_expert, tasks, evaluated, start_requests >>
    /\ IF s \notin DOMAIN interview_sessions
       THEN last' = Failure(op, s, 404, pre, NoBackend) /\ UNCHANGED sessions
       ELSE IF interview_sessions[s].conversation_history = << >>
       THEN last' = Failure(op, s, 400, pre, NoBackend) /\ UNCHANGED sessions
       ELSE IF ~HasSession(s)
       THEN last' = Failure(op, s, 404, pre, NoBackend) /\ UNCHANGED sessions
       ELSE IF ~sessions[s].patient_info
       THEN last' = Failure(op, s, 400, pre, NoBackend) /\ UNCHANGED sessions
       ELSE IF ~generated
       THEN last' = Failure(op, s, 500, pre, NoBackend) /\ UNCHANGED sessions
       ELSE /\ last' = Outcome(op, s, 200, None,
                               interview_sessions[s].question_number,
                               interview_sessions[s].status = COMPLETED,
                               100, TRUE, pre, NoBackend)
            /\ sessions' = IF collected
                           THEN [sessions EXCEPT ![s].prescreening_data =
                                     collect_prescreening_data(visit_type, diagnosis)]
                           ELSE sessions

\* ------------------------------------------------------------ departments

\* Text that the department service inspects is a sequence of characters.
Upper == << "A", "B", "C", "D", "E", "F", "G", "H", "I", "J", "K", "L", "M",
           "N", "O", "P", "Q", "R", "S", "T", "U", "V", "W", "X", "Y", "Z" >>
Lowercase == << "a", "b", "c", "d", "e", "f", "g", "h", "i", "j", "k", "l", "m",
               "n", "o", "p", "q", "r", "s", "t", "u", "v", "w", "x", "y", "z" >>

\* str.lower()
LowerChar(c) ==
    IF \E i \in 1..Len(Upper) : Upper[i] = c
    THEN Lowercase[CHOOSE i \in 1..Len(Upper) : Upper[i] = c]
    ELSE c
Lower(text) == [ i \in 1..Len(text) |-> LowerChar(text[i]) ]

\* text.startswith(prefix)
StartsWith(text, prefix) ==
    Len(prefix) <= Len(text) /\ SubSeq(text, 1, Len(prefix)) = prefix

\* `part in text`
Contains(part, text) ==
    \E i \in 0..(Len(text) - Len(part)) : SubSeq(text, i + 1, i + Len(part)) = part

\* No department, no doctor: Python's None where a text is expected.
NoText == << >>

Orthopedics == << "O", "r", "t", "h", "o", "p", "e", "d", "i", "c", "s" >>
Cardiology == << "C", "a", "r", "d", "i", "o", "l", "o", "g", "y" >>
Diabetologist == << "D", "i", "a", "b", "e", "t", "o", "l", "o", "g", "i", "s", "t" >>
Pediatrics == << "P", "e", "d", "i", "a", "t", "r", "i", "c", "s" >>
Urology == << "U", "r", "o", "l", "o", "g", "y" >>
GeneralMedicine == << "G", "e", "n", "e", "r", "a", "l", " ", "M", "e", "d", "i", "c", "i", "n", "e" >>

\* specialty_mappings of find_matching_department, in the order of the dict.
specialty_mappings ==
    << << << "o", "r", "t", "h", "o", "p", "e", "d", "i", "c" >>, Orthopedics >>,
       << << "o", "r", "t", "h", "o", "p", "e", "d", "i", "c", "s" >>, Orthopedics >>,
       << << "o", "r", "t", "h", "o" >>, Orthopedics >>,
       << << "c", "a", "r", "d", "i", "a", "c" >>, Cardiology >>,
       << << "c", "a", "r", "d", "i", "o", "l", "o", "g", "y" >>, Cardiology >>,
       << << "h", "e", "a", "r", "t" >>, Cardiology >>,
       << << "d", "i", "a", "b", "e", "t", "e", "s" >>, Diabetologist >>,
       << << "d", "i", "a", "b", "e", "t", "o", "l", "o", "g", "i", "s", "t" >>, Diabetologist >>,
       << << "e", "n", "d", "o", "c", "r", "i", "n", "e" >>, Diabetologist >>,
       << << "p", "e", "d", "i", "a", "t", "r", "i", "c" >>, Pediatrics >>,
       << << "p", "e", "d", "i", "a", "t", "r", "i", "c", "s" >>, Pediatrics >>,
       << << "c", "h", "i", "l", "d", "r", "e", "n" >>, Pediatrics >>,
       << << "u", "r", "o", "l", "o", "g", "y" >>, Urology >>,
       << << "k", "i", "d", "n", "e", "y" >>, Urology >>,
       << << "g", "e", "n", "e", "r", "a", "l", " ", "m", "e", "d", "i", "c", "i", "n", "e" >>, GeneralMedicine >>,
       << << "g", "e", "n", "e", "r", "a", "l" >>, GeneralMedicine >>,
       << << "i", "n", "t", "e", "r", "n", "a", "l", " ", "m", "e", "d", "i", "c", "i", "n", "e" >>, GeneralMedicine >>,
       << << "i", "n", "t", "e", "r", "n", "a", "l" >>, GeneralMedicine >> >>

\* Doctor(id, name, department); the roster is the list of doctors in the
\* order of the CSV rows.
Doctor(name, department) == [ name |-> name, department |-> department ]
NoDoctor == Doctor(NoText, NoText)

\* self.departments.keys(): the departments in the order of first appearance.
RECURSIVE departments(_)
departments(doctors) ==
    IF doctors = << >>
    THEN << >>
    ELSE LET before == departments(SubSeq(doctors, 1, Len(doctors) - 1))
             department == doctors[Len(doctors)].department
         IN IF \E i \in 1..Len(before) : before[i] = department
            THEN before
            ELSE Append(before, department)

\* `department in self.departments`
InRoster(doctors, department) ==
    \E i \in 1..Len(doctors) : doctors[i].department = department

get_doctors_by_department(doctors, department) ==
    SelectSeq(doctors, LAMBDA d : d.department = department)

First(S) == CHOOSE i \in S : \A j \in S : i <= j

\* find_doctor_by_name: the first doctor with that name, case ignored.
find_doctor_by_name(doctors, doctor_name) ==
    LET found == { i \in 1..Len(doctors) :
                     Lower(doctors[i].name) = Lower(doctor_name) }
    IN IF found = {} THEN NoDoctor ELSE doctors[First(found)]

MaxPrefixSlack == 3

\* find_matching_department with a slip: the keyword stage does not look the
\* mapped department up in the roster.
find_matching_department_unchecked(doctors, ai_suggested_dept) ==
    LET keys == departments(doctors)
        ai_dept_lower == Lower(ai_suggested_dept)
        direct == { i \in 1..Len(keys) : Lower(keys[i]) = ai_dept_lower }
        contained == { i \in 1..Len(specialty_mappings) :
                         Contains(specialty_mappings[i][1], ai_dept_lower) }
    IN IF direct # {}
       THEN keys[First(direct)]
       ELSE IF contained # {}
       THEN specialty_mappings[First(contained)][2]
       ELSE NoText

\* DepartmentService.find_matching_department
find_matching_department(doctors, ai_suggested_dept) ==
    LET keys == departments(doctors)
        ai_dept_lower == Lower(ai_suggested_dept)
        direct == { i \in 1..Len(keys) : Lower(keys[i]) = ai_dept_lower }
        exact == { i \in 1..Len(specialty_mappings) :
                     specialty_mappings[i][1] = ai_dept_lower }
        contained == { i \in 1..Len(specialty_mappings) :
                         /\ Contains(specialty_mappings[i][1], ai_dept_lower)
                         /\ InRoster(doctors, specialty_mappings[i][2]) }
        partial == { i \in 1..Len(keys) :
                       /\ StartsWith(ai_dept_lower, Lower(keys[i]))
                       /\ Len(ai_dept_lower) - Len(keys[i]) <= MaxPrefixSlack }
    IN IF direct # {}
       THEN keys[First(direct)]
       ELSE IF exact # {} /\ InRoster(doctors, specialty_mappings[First(exact)][2])
       THEN specialty_mappings[First(exact)][2]
       ELSE IF contained # {}
       THEN specialty_mappings[First(contained)][2]
       ELSE IF partial # {}
       THEN keys[First(partial)]
       ELSE NoText

\* The message of a recommendation: the f-string's literal text with its
\* placeholders numbered, and the values interpolated into them, in order.
Message(text, args) == [ text |-> text, args |-> args ]

\* DepartmentService.get_doctor_recommendations, result['message']
RecommendationMessage(recommendation_type, matched_dept, patient_doctor) ==
    CASE recommendation_type = "perfect_match" ->
             Message("Excellent choice! Proceed to Dr. {0} in {1}",
                     << patient_doctor.name, patient_doctor.department >>)
      [] recommendation_type = "conflict_resolution" ->
             Message("Two options available: 1) Your choice: Dr. {0} ({1}) 2) AI recommendation: {2} department",
                     << patient_doctor.name, patient_doctor.department,
                        matched_dept >>)
      [] recommendation_type = "patient_choice_only" ->
             Message("Proceed to your chosen doctor: Dr. {0} in {1}",
                     << patient_doctor.name, patient_doctor.department >>)
      [] recommendation_type = "ai_department" ->
             Message("Proceed to {0} department", << matched_dept >>)
      [] recommendation_type = "reception_referral" ->
             Message("Please visit hospital reception", << >>)
      [] OTHER ->
             Message("Please visit hospital reception for general consultation",
                     << >>)

\* get_doctor_recommendations with a slip: a chosen doctor of another
\* department counts as the patient's choice only.
get_doctor_recommendations_no_conflict(doctors, ai_suggested_dept, patient_chosen_doctor) ==
    LET matched_dept == find_matching_department(doctors, ai_suggested_dept)
        patient_doctor == find_doctor_by_name(doctors, patient_chosen_doctor)
        recommendation_type ==
            IF patient_doctor = NoDoctor
            THEN IF matched_dept # NoText THEN "ai_department"
                                         ELSE "reception_referral"
            ELSE IF patient_doctor.department = matched_dept
            THEN "perfect_match"
            ELSE "patient_choice_only"
    IN [ department_available |-> matched_dept # NoText,
         matched_department |-> matched_dept,
         recommended_doctors |-> get_doctors_by_department(doctors, matched_dept),
         patient_doctor_available |-> patient_doctor # NoDoctor,
         patient_doctor_info |-> patient_doctor,
         recommendation_type |-> recommendation_type,
         message |-> RecommendationMessage(recommendation_type,
                                           matched_dept, patient_doctor) ]

\* The reconciler without its unmatched branch: the defaults of the result
\* dictionary stay in place.
get_doctor_recommendations_default_type(doctors, ai_suggested_dept, patient_chosen_doctor) ==
    LET matched_dept == find_matching_department(doctors, ai_suggested_dept)
        matched == matched_dept # NoText
        patient_doctor ==
            IF patient_chosen_doctor # NoText
            THEN find_doctor_by_name(doctors, patient_chosen_doctor)
            ELSE NoDoctor
        found == patient_doctor # NoDoctor
        recommendation_type ==
            IF found /\ matched /\ patient_doctor.department = matched_dept
            THEN "perfect_match"
            ELSE IF found /\ matched /\ patient_doctor.department # matched_dept
            THEN "conflict_resolution"
            ELSE IF found
            THEN "patient_choice_only"
            ELSE IF matched
            THEN "ai_department"
            ELSE "hospital_reception"
    IN [ department_available |-> matched,
         matched_department |-> matched_dept,
         recommended_doctors |->
             IF matched THEN get_doctors_by_department(doctors, matched_dept)
                        ELSE << >>,
         patient_doctor_available |-> found,
         patient_doctor_info |-> patient_doctor,
         recommendation_type |-> recommendation_type,
         message |-> RecommendationMessage(recommendation_type,
                                           matched_dept, patient_doctor) ]

\* DepartmentService.get_doctor_recommendations
get_doctor_recommendations(doctors, ai_suggested_dept, patient_chosen_doctor) ==
    LET matched_dept == find_matching_department(doctors, ai_suggested_dept)
        matched == matched_dept # NoText
        patient_doctor ==
            IF patient_chosen_doctor # NoText
            THEN find_doctor_by_name(doctors, patient_chosen_doctor)
            ELSE NoDoctor
        found == patient_doctor # NoDoctor
        recommendation_type ==
            IF found /\ matched /\ patient_doctor.department = matched_dept
            THEN "perfect_match"
            ELSE IF found /\ matched /\ patient_doctor.department # matched_dept
            THEN "conflict_resolution"
            ELSE IF found
            THEN "patient_choice_only"
            ELSE IF matched
            THEN "ai_department"
            ELSE "reception_referral"
    IN [ department_available |-> matched,
         matched_department |-> matched_dept,
         recommended_doctors |->
             IF matched THEN get_doctors_by_department(doctors, matched_dept)
                        ELSE << >>,
         patient_doctor_available |-> found,
         patient_doctor_info |-> patient_doctor,
         recommendation_type |-> recommendation_type,
         message |-> RecommendationMessage(recommendation_type,
                                           matched_dept, patient_doctor) ]

\* ------------------------------------------------------------ assessment

Reception == << "R", "e", "c", "e", "p", "t", "i", "o", "n" >>

\* A confidence_level as the parsed AI response carries it: an integer, no
\* such field, a value that is not a number, or JSON null.
IntConf(c) == [ kind |-> "int", value |-> c ]
MissingConf == [ kind |-> "missing", value |-> 0 ]
TextConf == [ kind |-> "text", value |-> 0 ]
NullConf == [ kind |-> "null", value |-> 0 ]

DefaultAssessmentConfidence == 70
MissingFieldConfidence == 50
DegradedConfidence == 30

\* A patient as the assessment reads it: patient_info['chosen_doctor'].
Patient(chosen_doctor) == [ chosen_doctor |-> chosen_doctor ]

\* The degraded assessment has no "department_recommendations" key.
NoRecommendations ==
    [ department_available |-> FALSE, matched_department |-> NoText,
      recommended_doctors |-> << >>, patient_doctor_available |-> FALSE,
      patient_doctor_info |-> NoDoctor, recommendation_type |-> "absent",
      message |-> Message("", << >>) ]

\* The assessment generate_final_assessment returns from its except branch.
DegradedAssessment ==
    [ confidence_level |-> IntConf(DegradedConfidence),
      recommended_department |-> GeneralMedicine,
      department_recommendations |-> NoRecommendations,
      degraded |-> TRUE ]

\* The AI response parsed into assessment_data: a clean JSON object or one in
\* a ```json block replaces the defaults; any other text leaves them.
Structured(ai) == ai.form \in { "json", "markdown" }

\* assessment_data.get("confidence_level", 50)
ParsedConfidence(ai) ==
    IF ~Structured(ai) THEN IntConf(DefaultAssessmentConfidence)
    ELSE IF ai.confidence.kind = "missing" THEN IntConf(MissingFieldConfidence)
    ELSE ai.confidence

\* The department of the parsed response, else the one the text patterns
\* find in the response, else "General Medicine".
SuggestedDepartment(ai) ==
    IF Structured(ai) /\ ai.department # NoText THEN ai.department
    ELSE IF ai.mentioned # NoText THEN ai.mentioned
    ELSE GeneralMedicine

\* MedicalExpertService.generate_final_assessment: the chosen doctor is
\* cleared, so the recommendation is ai_department or reception_referral.
generate_final_assessment(patient, doctors, ai) ==
    IF ai.form \in { "raise", "no_text", "json_array" }
    THEN DegradedAssessment
    ELSE LET ai_suggested_dept == SuggestedDepartment(ai)
             patient_chosen_doctor == NoText
             doctor_recommendations ==
                 get_doctor_recommendations(doctors, ai_suggested_dept,
                                            patient_chosen_doctor)
             final_department ==
                 IF doctor_recommendations.recommendation_type = "reception_referral"
                 THEN Reception
                 ELSE doctor_recommendations.matched_department
         IN [ confidence_level |-> ParsedConfidence(ai),
              recommended_department |-> final_department,
              department_recommendations |-> doctor_recommendations,
              degraded |-> FALSE ]

HighThreshold == 70
MediumThreshold == 40

\* ConfidenceBand with a slip: > for >= at the upper threshold.
ConfidenceBandStrict(confidence_percentage) ==
    IF confidence_percentage > HighThreshold THEN "High"
    ELSE IF confidence_percentage >= MediumThreshold THEN "Medium"
    ELSE "Low"

\* The level and the action generate_medical_assessment derives from the
\* confidence percentage.
ConfidenceBand(confidence_percentage) ==
    IF confidence_percentage >= HighThreshold THEN "High"
    ELSE IF confidence_percentage >= MediumThreshold THEN "Medium"
    ELSE "Low"

RecommendedAction(confidence_percentage, recommended_department) ==
    IF confidence_percentage >= HighThreshold
    THEN [ kind |-> "proceed to specialist", department |-> recommended_department ]
    ELSE IF confidence_percentage >= MediumThreshold
    THEN [ kind |-> "consider consultation", department |-> recommended_department ]
    ELSE [ kind |-> "visit reception", department |-> NoText ]

\* The response of generate_medical_assessment once the interview and the
\* patient are found: comparing a confidence that is not a number raises, and
\* the handler's except clause answers 500.
AssessmentResponse(assessment_result) ==
    IF assessment_result.confidence_level.kind # "int"
    THEN [ http |-> 500, confidence_level |-> None,
           recommended_action |-> [ kind |-> None, department |-> NoText ],
           recommended_department |-> NoText ]
    ELSE [ http |-> 200,
           confidence_level |-> ConfidenceBand(assessment_result.confidence_level.value),
           recommended_action |->
               RecommendedAction(assessment_result.confidence_level.value,
                                 assessment_result.recommended_department),
           recommended_department |-> assessment_result.recommended_department ]

\* ------------------------------------------------------------ specification

OneSession == {"s1"}
FollowupReplies == { JsonReply(GenTreatment), JsonReply(GenSymptom) }
MedicalReplies == { TextReply(GenNeutral), TextReply(GenReadyInText), NoReply }
Answers == { "yes", "Not Sure" }

Next ==
    \E s \in OneSession :
        \/ create_session(s)
        \/ store_session_data(s, TRUE)
        \/ delete_session(s)
        \/ \E out \in FollowupReplies : start_followup_interview(s, out)
        \/ \E a \in Answers, out \in FollowupReplies : submit_followup_answer(s, a, out)
        \/ get_followup_interview_status(s)
        \/ \E out \in MedicalReplies : start_medical_interview(s, out)
        \/ \E a \in Answers, out \in MedicalReplies : submit_patient_answer(s, a, out)
        \/ get_interview_status(s)
        \/ generate_followup_assessment(s, TRUE, Stable)
        \/ generate_medical_assessment(s, TRUE, TRUE, "ai-help", Stable)

Spec == Init /\ [][Next]_vars

\* The follow-up flow on its own, with a backend that also returns an empty
\* question (the service then substitutes its default text, which touches
\* neither topic).
InitService == Init /\ medical_expert # None

FollowupRepliesWide ==
    { JsonReply(GenTreatment), JsonReply(GenSymptom), JsonReply("") }

NextFollowup ==
    \E s \in OneSession :
        \/ create_session(s)
        \/ store_session_data(s, TRUE)
        \/ delete_session(s)
        \/ \E out \in FollowupRepliesWide : start_followup_interview(s, out)
        \/ \E a \in Answers, out \in FollowupRepliesWide :
               submit_followup_answer(s, a, out)
        \/ get_followup_interview_status(s)
        \/ generate_followup_assessment(s, TRUE, Stable)

SpecFollowup == InitService /\ [][NextFollowup]_vars

\* The flows with the generative backend down: every backend call comes back
\* with nothing, and a stored session may lack consultation data.
BackendDown == { NoReply }

NextOutage ==
    \E s \in OneSession :
        \/ create_session(s)
        \/ \E consult \in BOOLEAN : store_session_data(s, consult)
        \/ delete_session(s)
        \/ \E out \in BackendDown : start_followup_interview(s, out)
        \/ \E a \in Answers, out \in BackendDown : submit_followup_answer(s, a, out)
        \/ \E out \in BackendDown : start_medical_interview(s, out)
        \/ \E a \in Answers, out \in BackendDown : submit_patient_answer(s, a, out)

SpecOutage == Init /\ [][NextOutage]_vars

\* The flows with a client that only sends blank answers: the empty string
\* and strings of spaces.
BlankAnswers == { "", " ", "   " }

NextBlank ==
    \E s \in OneSession :
        \/ create_session(s)
        \/ store_session_data(s, TRUE)
        \/ \E out \in FollowupReplies : start_followup_interview(s, out)
        \/ \E a \in BlankAnswers, out \in FollowupReplies :
               submit_followup_answer(s, a, out)
        \/ \E out \in MedicalReplies : start_medical_interview(s, out)
        \/ \E a \in BlankAnswers, out \in MedicalReplies :
               submit_patient_answer(s, a, out)

SpecBlank == Init /\ [][NextBlank]_vars

\* The department service on its own: rosters and suggestions to match.
ENT == << "E", "N", "T" >>
DrAnn == Doctor(<< "A", "n", "n" >>, Cardiology)
DrBob == Doctor(<< "B", "o", "b" >>, Urology)
DrCy == Doctor(<< "C", "y" >>, ENT)

Rosters ==
    { << >>, << DrAnn >>, << DrBob >>, << DrCy >>, << DrAnn, DrBob >>,
      << DrCy, DrAnn >>, << DrBob, DrCy >>, << DrAnn, DrBob, DrCy >> }

Suggestions ==
    { << "C", "a", "r", "d", "i", "o", "l", "o", "g", "y" >>,
      << "C", "A", "R", "D", "I", "O", "L", "O", "G", "Y" >>,
      << "c", "a", "r", "d", "i", "a", "c" >>,
      << "c", "a", "r", "d", "i", "a", "c", " ", "i", "s", "s", "u", "e", "s" >>,
      << "H", "e", "a", "r", "t", " ", "a", "n", "d", " ", "k", "i", "d", "n", "e", "y" >>,
      << "N", "e", "u", "r", "o", "l", "o", "g", "y" >>,
      << "E", "N", "T", " ", "2" >>,
      << "E", "N", "T", " ", "s", "u", "r", "g", "e", "r", "y" >>,
      << "D", "e", "r", "m", "a", "t", "o", "l", "o", "g", "y" >>,
      << "U", "r", "o", "l", "o", "g", "y", " ", "O", "P", "D" >> }

EvaluateMatch(doctors, text) ==
    /\ evaluated' = [ fn |-> "find_matching_department", roster |-> doctors,
                      text |-> text,
                      result |-> find_matching_department(doctors, text) ]
    /\ UNCHANGED << sessions, issued, interview_sessions,
                    followup_interview_sessions, medical_expert, tasks,
                    start_requests, last >>

ChosenDoctors ==
    { NoText, << "a", "n", "n" >>, << "B", "o", "b" >>, << "Z", "e", "d" >> }

EvaluateRecommendations(doctors, text, chosen) ==
    /\ evaluated' = [ fn |-> "get_doctor_recommendations", roster |-> doctors,
                      text |-> text, chosen |-> chosen,
                      result |-> get_doctor_recommendations(doctors, text, chosen) ]
    /\ UNCHANGED << sessions, issued, interview_sessions,
                    followup_interview_sessions, medical_expert, tasks,
                    start_requests, last >>

NextRouting ==
    \E doctors \in Rosters, text \in Suggestions :
        \/ EvaluateMatch(doctors, text)
        \/ \E chosen \in ChosenDoctors :
               EvaluateRecommendations(doctors, text, chosen)

SpecRouting == InitService /\ [][NextRouting]_vars

Dermatology == << "D", "e", "r", "m", "a", "t", "o", "l", "o", "g", "y" >>

\* The assessment pipeline on its own: the outcomes of the AI call.
MaxConfidence == 100

Confidences ==
    { IntConf(c) : c \in 0..MaxConfidence } \cup { MissingConf, TextConf, NullConf }

AIOutcome(form, confidence, department, mentioned) ==
    [ form |-> form, confidence |-> confidence, department |-> department,
      mentioned |-> mentioned ]

AIOutcomes ==
    { AIOutcome(form, c, Cardiology, NoText) :
          form \in { "json", "markdown" }, c \in Confidences }
    \cup { AIOutcome("json", IntConf(85), d, m) :
               d \in { Dermatology, NoText }, m \in { NoText, Urology } }
    \cup { AIOutcome(form, MissingConf, NoText, m) :
               form \in { "text", "markdown_broken" }, m \in { NoText, Urology } }
    \cup { AIOutcome(form, MissingConf, NoText, NoText) :
               form \in { "empty", "no_text", "raise", "json_array" } }

AssessmentRosters == { << >>, << DrAnn, DrBob, DrCy >> }

EvaluateAssessment(patient, doctors, ai) ==
    LET assessment_result == generate_final_assessment(patient, doctors, ai)
    IN
    /\ evaluated' = [ fn |-> "generate_medical_assessment", roster |-> doctors,
                      patient |-> patient,
                      ai |-> ai, result |-> assessment_result,
                      response |-> AssessmentResponse(assessment_result) ]
    /\ UNCHANGED << sessions, issued, interview_sessions,
                    followup_interview_sessions, medical_expert, tasks,
                    start_requests, last >>

NextAssessment ==
    \E doctors \in AssessmentRosters, ai \in AIOutcomes :
        EvaluateAssessment(Patient(NoText), doctors, ai)

SpecAssessment == InitService /\ [][NextAssessment]_vars

\* Two patients at once: every handler, for either session id.
OneReply == { JsonReply(GenTreatment) }
OneAnswer == { "yes" }

NextIsolation ==
    \E s \in SessionIds :
        \/ create_session(s)
        \/ store_session_data(s, TRUE)
        \/ \E out \in OneReply : start_followup_interview(s, out)
        \/ \E a \in OneAnswer, out \in OneReply : submit_followup_answer(s, a, out)
        \/ \E out \in BackendDown : start_medical_interview(s, out)
        \/ \E a \in OneAnswer, out \in BackendDown : submit_patient_answer(s, a, out)
        \/ generate_followup_assessment(s, TRUE, Stable)
        \/ generate_medical_assessment(s, TRUE, TRUE, "ai-help", Stable)

SpecIsolation == InitService /\ [][NextIsolation]_vars

\* Two submit-answer calls for the same interview handled at once.  Every
\* other request starts when no handler holds the event loop.
NextConcurrent ==
    \/ \E s \in OneSession :
           \/ LoopFree /\ create_session(s)
           \/ LoopFree /\ store_session_data(s, TRUE)
           \/ LoopFree /\ \E out \in FollowupReplies : start_followup_interview(s, out)
           \/ \E t \in TaskIds, a \in Answers : receive_followup_answer(t, s, a)
    \/ \E t \in TaskIds :
           \/ begin_followup_answer(t)
           \/ \E out \in FollowupReplies : resume_followup_answer(t, out)

SpecConcurrent == InitService /\ [][NextConcurrent]_vars

\* The follow-up flow with an assessment whose wording differs from call to
\* call.
Diagnoses == { Stable, Worsening }

NextRecords ==
    \E s \in OneSession :
        \/ create_session(s)
        \/ store_session_data(s, TRUE)
        \/ \E out \in OneReply : start_followup_interview(s, out)
        \/ \E a \in Answers, out \in OneReply : submit_followup_answer(s, a, out)
        \/ \E d \in Diagnoses : generate_followup_assessment(s, TRUE, d)
        \/ \E d \in Diagnoses : generate_medical_assessment(s, TRUE, TRUE, "ai-help", d)

SpecRecords == InitService /\ [][NextRecords]_vars

\* The follow-up flow with a backend that may declare the interview complete.
MarkerReplies ==
    { JsonReply(GenTreatment), JsonReply(GenCompleteInText),
      TextReply(GenCompleteInText) }

NextMarker ==
    \E s \in OneSession :
        \/ create_session(s)
        \/ store_session_data(s, TRUE)
        \/ \E out \in MarkerReplies : start_followup_interview(s, out)
        \/ \E a \in Answers, out \in MarkerReplies : submit_followup_answer(s, a, out)

SpecMarker == InitService /\ [][NextMarker]_vars

\* The assessment pipeline for patients who chose a doctor beforehand.
ChoosingPatients == { Patient(chosen) : chosen \in ChosenDoctors }

ChoiceOutcomes ==
    { AIOutcome(form, c, d, NoText) :
          form \in { "json", "markdown" },
          c \in { IntConf(40), IntConf(85), MissingConf },
          d \in { Cardiology, Urology, Dermatology } }

ChoiceRosters == { << DrBob >>, << DrAnn, DrBob, DrCy >> }

NextChoice ==
    \E patient \in ChoosingPatients, doctors \in ChoiceRosters,
       ai \in ChoiceOutcomes :
        EvaluateAssessment(patient, doctors, ai)

SpecChoice == InitService /\ [][NextChoice]_vars

\* ------------------------------------------------------------ properties

FirstVisit == "first-visit"
FollowUp == "follow-up"
Kinds == {FirstVisit, FollowUp}

Table(kind) ==
    IF kind = FirstVisit THEN interview_sessions ELSE followup_interview_sessions
StartOp(kind) ==
    IF kind = FirstVisit THEN "medical/start-interview" ELSE "followup/start-interview"
SubmitOp(kind) ==
    IF kind = FirstVisit THEN "medical/submit-answer" ELSE "followup/submit-answer"

\* The last request was a submit_answer of this kind, and its interview exists.
Submitted(kind) ==
    last.op = SubmitOp(kind) /\ last.sid \in DOMAIN Table(kind)

\* The last request was a submit_answer of this kind that was accepted: the
\* request was valid, and the interview and the stored session were found.
Accepted(kind) == Submitted(kind) /\ last.http = 200

\* C1: in both variants, whenever a submit_answer call has returned and the
\* interview is still ACTIVE, the transcript holds question_number - 1 entries.
C1_TranscriptCounter ==
    \A kind \in Kinds :
        (Submitted(kind) /\ Table(kind)[last.sid].status = ACTIVE)
            => Len(Table(kind)[last.sid].conversation_history)
                   = Table(kind)[last.sid].question_number - 1

C1_Witness ==
    /\ Accepted(FollowUp)
    /\ followup_interview_sessions[last.sid].status = ACTIVE
    /\ Len(followup_interview_sessions[last.sid].conversation_history) = 3

\* C2: stop-condition monotonicity.  An accepted submit_answer call that found
\* question_number >= max_questions, or that leaves unknown_count >=
\* max_unknowns, sets status COMPLETED, returns no next question and does not
\* invoke the question generator.
C2_StopMonotone ==
    \A kind \in Kinds :
        Accepted(kind) =>
            LET sess == Table(kind)[last.sid]
            IN (\/ last.pre.question_number >= sess.max_questions
                \/ sess.unknown_count >= sess.max_unknowns)
               => /\ sess.status = COMPLETED
                  /\ last.interview_complete
                  /\ last.question = None
                  /\ ~last.generated

C2_Witness ==
    /\ Accepted(FollowUp)
    /\ last.pre.question_number >= FollowupMaxQuestions
    /\ followup_interview_sessions[last.sid].unknown_count < FollowupMaxUnknowns
    /\ followup_interview_sessions[last.sid].status = COMPLETED

\* C3: a submit_answer call (with a non-empty answer) on an interview that is
\* not ACTIVE fails with the invalid-state error (HTTP 400) and changes
\* nothing of any interview.
C3_TerminalRejects ==
    [][ \A kind \in Kinds :
            (/\ last'.op = SubmitOp(kind)
             /\ last'.pre.status \in {COMPLETED, ABORTED}
             /\ last'.http # 422)
            => /\ last'.http = 400
               /\ interview_sessions' = interview_sessions
               /\ followup_interview_sessions' = followup_interview_sessions
      ]_vars

C3_Witness ==
    /\ last.op = SubmitOp(FollowUp)
    /\ last.pre.status = COMPLETED
    /\ last.http = 400
    /\ followup_interview_sessions[last.sid].status = COMPLETED

\* C4: no transition leaves a terminal state.  Once the interview of a kind
\* for a session id is COMPLETED, no later operation with that session id
\* makes it ACTIVE again.
C4_NeverActiveAgain ==
    [][ \A kind \in Kinds : \A s \in DOMAIN Table(kind) :
            Table(kind)[s].status = COMPLETED
            => (Table(kind))'[s].status # ACTIVE
      ]_vars
\* The last request was a first-visit submit_answer for a session that
\* resolves with patient info, whose interview the client had asked to start
\* and which had not completed before; the answer was not empty.
FirstVisitAnswered ==
    /\ last.op = SubmitOp(FirstVisit)
    /\ last.sid \in start_requests
    /\ last.pre.patient
    /\ last.pre.status \notin {COMPLETED, ABORTED}
    /\ last.http # 422

\* The backend's reply to the last first-visit request carried the sentinel.
SentinelReturned ==
    /\ medical_expert # None
    /\ "ASSESSMENT_READY" \in Tokens(generate_next_question(last.reply))

\* C5: start_interview of a first visit, for a session id whose stored session
\* has patient info, succeeds with question_number 1 and leaves an ACTIVE
\* interview with question_number 1, unknown_count 0 and an empty transcript.
C5_StartCreatesFreshInterview ==
    (last.op = StartOp(FirstVisit) /\ last.pre.patient)
    => /\ last.http = 200
       /\ last.question_number = 1
       /\ last.sid \in DOMAIN interview_sessions
       /\ interview_sessions[last.sid].status = ACTIVE
       /\ interview_sessions[last.sid].question_number = 1
       /\ interview_sessions[last.sid].unknown_count = 0
       /\ interview_sessions[last.sid].conversation_history = << >>

\* C6: happy path of a first visit with max_questions 6.  With no uncertain
\* answer and no sentinel, the interview is ACTIVE after each of the answers
\* 1 to 5 and COMPLETED exactly on the 6th, with completion_percent 100.
C6_HappyPath ==
    FirstVisitAnswered
    => /\ last.http = 200
       /\ last.sid \in DOMAIN interview_sessions
       /\ LET sess == interview_sessions[last.sid]
              answers == Len(sess.conversation_history)
          IN (sess.unknown_count = 0 /\ ~SentinelReturned)
             => /\ answers < DefaultMaxQuestions
                     => (sess.status = ACTIVE /\ ~last.interview_complete)
                /\ answers = DefaultMaxQuestions
                     => /\ sess.status = COMPLETED
                        /\ last.interview_complete
                        /\ last.completion_percent = 100

\* C7: the uncertainty budget of a first visit with max_unknowns 2.  The
\* submit_answer call that records the second uncertain answer completes the
\* interview although question_number < max_questions, and no earlier call
\* completes it for this reason.
C7_UncertaintyBudget ==
    FirstVisitAnswered
    => /\ last.http = 200
       /\ last.sid \in DOMAIN interview_sessions
       /\ LET sess == interview_sessions[last.sid]
          IN (Len(sess.conversation_history) < DefaultMaxQuestions
              /\ ~SentinelReturned)
             => (sess.status = COMPLETED
                 <=> sess.unknown_count >= DefaultMaxUnknowns)

\* C8: early completion of a follow-up.  (a) An accepted submit_answer call
\* made at question_number >= 4, whose transcript holds a question on the
\* treatment ("medic", "treatment") and one on the symptoms ("feel",
\* "symptom"), completes the interview although max_questions is 6.  (b) An
\* interview with question_number < 4 and unknown_count < max_unknowns is not
\* completed.
C8_EarlyCompletion ==
    /\ Accepted(FollowUp)
       => LET sess == followup_interview_sessions[last.sid]
              asked == { sess.conversation_history[i].question :
                           i \in 1..Len(sess.conversation_history) }
          IN (/\ last.pre.question_number >= 4
              /\ \E q \in asked : LowerKeywords(q) \cap {"medic", "treatment"} # {}
              /\ \E q \in asked : LowerKeywords(q) \cap {"feel", "symptom"} # {})
             => (sess.status = COMPLETED /\ last.interview_complete)
    /\ \A s \in DOMAIN followup_interview_sessions :
          LET sess == followup_interview_sessions[s]
          IN (sess.question_number < 4 /\ sess.unknown_count < sess.max_unknowns)
             => sess.status # COMPLETED

C8_Witness ==
    /\ Accepted(FollowUp)
    /\ last.pre.question_number = 4
    /\ followup_interview_sessions[last.sid].status = COMPLETED
    /\ followup_interview_sessions[last.sid].question_number = 4
    /\ followup_interview_sessions[last.sid].unknown_count = 0

\* C9: sentinel completion of a first visit.  When the question generated
\* after an answer contains ASSESSMENT_READY, the interview is COMPLETED and
\* the response has interview_complete true and no next question.
C9_SentinelCompletes ==
    (FirstVisitAnswered /\ SentinelReturned)
    => /\ last.http = 200
       /\ last.interview_complete
       /\ last.question = None
       /\ last.sid \in DOMAIN interview_sessions
       /\ interview_sessions[last.sid].status = COMPLETED

\* C10: with a question generator that fails on every call, start_interview of
\* a first visit still succeeds, leaves an ACTIVE interview and returns the
\* fixed opening question.
C10_GeneratorOutage ==
    (/\ last.op = StartOp(FirstVisit)
     /\ last.pre.patient
     /\ (medical_expert = None \/ last.reply = NoReply))
    => /\ last.http = 200
       /\ last.question = MedFallbackFirst
       /\ last.sid \in DOMAIN interview_sessions
       /\ interview_sessions[last.sid].status = ACTIVE

\* The fixed questions a handler or its service substitutes when generating
\* the next question fails.
FixedNextQuestions(kind) ==
    IF kind = FirstVisit
    THEN { MedFallbackNext, MedServiceFallback }
    ELSE { FuFallbackNext } \cup { fallback_questions[i] : i \in 1..Len(fallback_questions) }

\* C11: a generator failure during submit_answer is not fatal.  With the
\* backend down, a submit_answer call that is accepted and meets no stop
\* condition appends the answer to the transcript, raises question_number by
\* exactly one, leaves the interview ACTIVE and succeeds with a fixed
\* fallback question.
C11_GeneratorFailureNonFatal ==
    [][ \A kind \in Kinds :
            (/\ last' # last
             /\ last'.op = SubmitOp(kind)
             /\ last'.http = 200
             /\ ~last'.interview_complete)
            => LET old == Table(kind)[last'.sid]
                   new == (Table(kind))'[last'.sid]
                   n == Len(old.conversation_history)
               IN /\ Len(new.conversation_history) = n + 1
                  /\ SubSeq(new.conversation_history, 1, n) = old.conversation_history
                  /\ \E a \in Answers :
                        new.conversation_history[n + 1].answer = Strip(a)
                  /\ new.question_number = old.question_number + 1
                  /\ new.status = ACTIVE
                  /\ last'.question \in FixedNextQuestions(kind)
      ]_vars

C11_Witness ==
    /\ Accepted(FollowUp)
    /\ ~last.interview_complete
    /\ last.question = FuFallbackNext
    /\ ~last.generated
    /\ Len(followup_interview_sessions[last.sid].conversation_history) = 2
    /\ followup_interview_sessions[last.sid].question_number = 3
    /\ followup_interview_sessions[last.sid].status = ACTIVE

\* C12: answer attribution.  After every start_interview for a session with
\* patient info, and after every continuing submit_answer, last_question_asked
\* is the question returned to the client (a fallback question included), so
\* the next transcript entry pairs the answer with the question that was shown.
C12_AnswerAttribution ==
    \A kind \in Kinds :
        /\ (last.op = StartOp(kind) /\ last.pre.patient)
           => /\ last.http = 200
              /\ last.sid \in DOMAIN Table(kind)
              /\ Table(kind)[last.sid].last_question_asked = last.question
        /\ (Accepted(kind) /\ ~last.interview_complete)
           => Table(kind)[last.sid].last_question_asked = last.question

\* C13: an answer that is empty after trimming is refused.  With a client that
\* only sends blank answers, every submit_answer call on an ACTIVE interview
\* fails with the validation error (HTTP 422), and no transcript holds an
\* entry with an empty answer.
C13_BlankAnswerRejected ==
    \A kind \in Kinds :
        /\ (last.op = SubmitOp(kind) /\ last.pre.status = ACTIVE)
           => last.http = 422
        /\ \A s \in DOMAIN Table(kind) :
              \A i \in 1..Len(Table(kind)[s].conversation_history) :
                  Table(kind)[s].conversation_history[i].answer # ""

\* C14: the interview is bounded.  In every reachable state the transcript
\* holds at most max_questions entries and question_number is at most
\* max_questions; an interview that has recorded max_questions answers is
\* COMPLETED.
C14_Bounded ==
    \A kind \in Kinds : \A s \in DOMAIN Table(kind) :
        LET sess == Table(kind)[s]
        IN /\ Len(sess.conversation_history) <= sess.max_questions
           /\ sess.question_number <= sess.max_questions
           /\ Len(sess.conversation_history) = sess.max_questions
                  => sess.status = COMPLETED

C14_Witness ==
    \E s \in DOMAIN followup_interview_sessions :
        LET sess == followup_interview_sessions[s]
        IN /\ Len(sess.conversation_history) = sess.max_questions
           /\ sess.question_number = sess.max_questions
           /\ sess.unknown_count < sess.max_unknowns
           /\ ~has_symptom_info(sess)
           /\ sess.status = COMPLETED

AssessOp(kind) ==
    IF kind = FirstVisit THEN "assessment/generate" ELSE "followup/generate-assessment"

\* The `detail` of the HTTP 400 an assessment request failed with, by the
\* order of the handler's tests.
NoInterviewData == "No interview data available"
InterviewNotCompleted == "Interview must be completed before generating assessment"
PatientInfoNotFound == "Patient information not found"

AssessmentErrorDetail ==
    IF last.http # 400 \/ last.sid \notin DOMAIN Table(FirstVisit) \cup DOMAIN Table(FollowUp)
    THEN None
    ELSE IF last.op = AssessOp(FirstVisit)
    THEN IF interview_sessions[last.sid].conversation_history = << >>
         THEN NoInterviewData ELSE PatientInfoNotFound
    ELSE IF last.op = AssessOp(FollowUp)
    THEN IF last.pre.status # COMPLETED
         THEN InterviewNotCompleted ELSE PatientInfoNotFound
    ELSE None

\* An assessment request has just been answered for an interview that exists
\* and has an empty transcript.
AssessedEmpty(kind) ==
    /\ last' # last
    /\ last'.op = AssessOp(kind)
    /\ last'.sid \in DOMAIN Table(kind)
    /\ Table(kind)[last'.sid].conversation_history = << >>

RosterDepartments(doctors) == { doctors[i].department : i \in 1..Len(doctors) }

Mapped(keywords) == { specialty_mappings[i][2] : i \in keywords }

C20_ReconcileClassification ==
    evaluated.fn = "get_doctor_recommendations" =>
        LET r == evaluated.result
            roster == evaluated.roster
            matched == find_matching_department(roster, evaluated.text) # NoText
            chosen == { i \in 1..Len(roster) :
                          /\ evaluated.chosen # NoText
                          /\ Lower(roster[i].name) = Lower(evaluated.chosen) }
            same == \E i \in chosen : roster[i].department = r.matched_department
        IN /\ r.recommendation_type \in
                  { "ai_department", "perfect_match", "conflict_resolution",
                    "patient_choice_only", "reception_referral" }
           /\ r.department_available = matched
           /\ r.recommendation_type = "ai_department"
                  <=> (matched /\ chosen = {})
           /\ r.recommendation_type = "perfect_match"
                  <=> (matched /\ chosen # {} /\ same)
           /\ r.recommendation_type = "conflict_resolution"
                  <=> (matched /\ chosen # {} /\ ~same)
           /\ r.recommendation_type = "patient_choice_only"
                  <=> (~matched /\ chosen # {})
           /\ r.recommendation_type = "reception_referral"
                  <=> (~matched /\ chosen = {} /\ ~r.patient_doctor_available)

C20_Witness ==
    /\ evaluated.fn = "get_doctor_recommendations"
    /\ evaluated.roster = << DrAnn, DrBob, DrCy >>
    /\ evaluated.chosen = << "B", "o", "b" >>
    /\ evaluated.result.matched_department = Cardiology
    /\ evaluated.result.recommendation_type = "conflict_resolution"

\* The reconciler has been applied to a suggestion that matches no department
\* of the roster.
Unmatched ==
    /\ evaluated.fn = "get_doctor_recommendations"
    /\ find_matching_department(evaluated.roster, evaluated.text) = NoText

\* C21 (as stated): whenever the AI-suggested department matches none of the
\* roster's departments, reconcile returns recommendation_type
\* reception_referral and an empty recommended_doctors list.
C21_ReceptionFallback ==
    Unmatched =>
        /\ evaluated.result.recommendation_type = "reception_referral"
        /\ evaluated.result.recommended_doctors = << >>

\* C21 (amended): whenever the AI-suggested department matches none of the
\* roster's departments, reconcile returns an empty recommended_doctors list,
\* department_available false and no matched department; the type is
\* reception_referral when no chosen doctor is found in the roster and
\* patient_choice_only when one is.
C21_ReceptionFallbackUnlessChosen ==
    Unmatched =>
        LET r == evaluated.result
            roster == evaluated.roster
            chosen == \E i \in 1..Len(roster) :
                          /\ evaluated.chosen # NoText
                          /\ Lower(roster[i].name) = Lower(evaluated.chosen)
        IN /\ r.recommended_doctors = << >>
           /\ ~r.department_available
           /\ r.matched_department = NoText
           /\ r.recommendation_type =
                  IF chosen THEN "patient_choice_only" ELSE "reception_referral"

C21_Witness ==
    /\ Unmatched
    /\ evaluated.roster = << DrAnn, DrBob >>
    /\ evaluated.chosen = NoText
    /\ evaluated.result.recommendation_type = "reception_referral"
    /\ evaluated.result.recommended_doctors = << >>

\* A value is named by a message when it is interpolated into it.
Mentions(message, value) == \E i \in DOMAIN message.args : message.args[i] = value

\* The reconciler has been applied to a chosen doctor of the roster and a
\* suggestion that resolves to another department than the doctor's.
Conflict ==
    /\ evaluated.fn = "get_doctor_recommendations"
    /\ evaluated.chosen # NoText
    /\ LET doctor == find_doctor_by_name(evaluated.roster, evaluated.chosen)
           d2 == find_matching_department(evaluated.roster, evaluated.text)
       IN doctor # NoDoctor /\ d2 # NoText /\ doctor.department # d2

\* C22: when the patient's chosen doctor resolves to department D1 and the AI
\* suggestion resolves to another department D2, reconcile returns
\* conflict_resolution and its message names the patient's doctor with D1 and
\* the first roster doctor of D2 with D2.
C22_ConflictNamesBothPairs ==
    Conflict =>
        LET r == evaluated.result
            doctor == find_doctor_by_name(evaluated.roster, evaluated.chosen)
            d2 == find_matching_department(evaluated.roster, evaluated.text)
            first_of_d2 == get_doctors_by_department(evaluated.roster, d2)[1]
        IN /\ r.recommendation_type = "conflict_resolution"
           /\ Mentions(r.message, doctor.name)
           /\ Mentions(r.message, doctor.department)
           /\ Mentions(r.message, first_of_d2.name)
           /\ Mentions(r.message, d2)

\* An assessment has been generated from an AI outcome.
Assessed == evaluated.fn = "generate_medical_assessment"

\* C16: assessment generation never surfaces an AI parsing or generation
\* failure as an error.  Whatever the AI call comes back with (clean JSON,
\* JSON in a markdown block, free text, a missing or non-numeric confidence,
\* empty output, an exception) the outcome is a valid assessment, and on total
\* failure it is the degraded one, with confidence 30 and department
\* "General Medicine".
C16_AssessmentNeverFails ==
    Assessed =>
        /\ evaluated.response.http = 200
        /\ evaluated.response.confidence_level \in { "High", "Medium", "Low" }
        /\ evaluated.ai.form \in { "raise", "no_text" }
           => /\ evaluated.result.confidence_level = IntConf(30)
              /\ evaluated.response.recommended_department = GeneralMedicine

\* C17: when the AI response carries no parseable confidence (the field is
\* missing, or the response is not structured output), the confidence used
\* for banding is 50 and the assessment is reported in the Medium band.
C17_DefaultConfidence ==
    (/\ Assessed
     /\ \/ evaluated.ai.form \in { "text", "markdown_broken", "empty" }
        \/ (evaluated.ai.form \in { "json", "markdown" }
            /\ evaluated.ai.confidence = MissingConf))
    => /\ evaluated.result.confidence_level = IntConf(50)
       /\ evaluated.response.confidence_level = "Medium"

\* C18: confidence banding.  For every integer confidence c of 0..100 the
\* level is High exactly when c >= 70, Medium exactly when 40 <= c <= 69 and
\* Low exactly when c < 40; the action is the visit to reception only in the
\* Low band.
C18_ConfidenceBanding ==
    (Assessed /\ evaluated.result.confidence_level.kind = "int") =>
        LET c == evaluated.result.confidence_level.value
            response == evaluated.response
        IN /\ response.confidence_level = "High" <=> c >= 70
           /\ response.confidence_level = "Medium" <=> (40 <= c /\ c <= 69)
           /\ response.confidence_level = "Low" <=> c < 40
           /\ response.recommended_action.kind = "visit reception" <=> c < 40

C18_Witness ==
    /\ Assessed
    /\ evaluated.ai.form = "json"
    /\ evaluated.ai.confidence = IntConf(70)
    /\ evaluated.response.confidence_level = "High"
    /\ evaluated.response.recommended_action.kind = "proceed to specialist"

\* C23: the assessment flow reconciles against the patient's choice.  When the
\* patient has a chosen doctor who is in the roster, the recommendation the
\* assessment returns is perfect_match if the doctor's department is the
\* matched one, conflict_resolution if it is another, and patient_choice_only
\* if no department matched.
C23_AssessmentReconcilesChoice ==
    (/\ Assessed
     /\ evaluated.patient.chosen_doctor # NoText
     /\ find_doctor_by_name(evaluated.roster, evaluated.patient.chosen_doctor)
            # NoDoctor)
    => LET doctor == find_doctor_by_name(evaluated.roster,
                                         evaluated.patient.chosen_doctor)
           matched == find_matching_department(evaluated.roster,
                                               SuggestedDepartment(evaluated.ai))
           r == evaluated.result.department_recommendations
       IN r.recommendation_type =
              IF matched = NoText THEN "patient_choice_only"
              ELSE IF doctor.department = matched THEN "perfect_match"
              ELSE "conflict_resolution"

\* The entry of a session id in an interview table, None when it has none.
Entry(table, s) == IF s \in DOMAIN table THEN table[s] ELSE None

StartSubmitAssess ==
    { StartOp(k) : k \in Kinds } \cup { SubmitOp(k) : k \in Kinds }
        \cup { AssessOp(k) : k \in Kinds }

\* C24: session isolation.  start_interview, submit_answer and
\* generate_assessment for one session id leave the interview (transcript,
\* counters, status, last question asked) of every other session id as it
\* was, in both tables; a first-visit operation leaves the follow-up interview
\* of the same session id as it was, and a follow-up operation the first-visit
\* one.
C24_SessionIsolation ==
    [][ (last' # last /\ last'.op \in StartSubmitAssess) =>
          /\ \A other \in SessionIds \ { last'.sid } :
                 /\ Entry(interview_sessions', other)
                        = Entry(interview_sessions, other)
                 /\ Entry(followup_interview_sessions', other)
                        = Entry(followup_interview_sessions, other)
          /\ \A k \in Kinds :
                 last'.op \in { StartOp(k), SubmitOp(k), AssessOp(k) }
                 => \A other \in Kinds \ { k } : Table(other)' = Table(other)
      ]_vars

\* The second patient has answered a question while the first patient's
\* interview is under way.
C24_Witness ==
    /\ last.op = "followup/submit-answer"
    /\ last.http = 200
    /\ last.sid = "s2"
    /\ "s1" \in DOMAIN followup_interview_sessions
    /\ Len(followup_interview_sessions["s1"].conversation_history) = 2
    /\ Len(followup_interview_sessions["s2"].conversation_history) = 1

IsPrefix(a, b) == Len(a) <= Len(b) /\ SubSeq(b, 1, Len(a)) = a

\* C26: the transcript of a session id is append-only.  Across start_interview,
\* submit_answer, get_status and generate_assessment, every step leaves the
\* transcript it found as a prefix of the transcript it leaves, so the
\* transcript at any later time extends the transcript at every earlier time.
C26_TranscriptAppendOnly ==
    [][ \A kind \in Kinds : \A s \in DOMAIN Table(kind) :
            /\ s \in DOMAIN (Table(kind))'
            /\ IsPrefix(Table(kind)[s].conversation_history,
                        (Table(kind))'[s].conversation_history)
      ]_vars

\* C27: whichever stop condition completes an interview (question budget,
\* unknown budget, early completion of a follow-up, readiness declared by the
\* model), the completed interview has question_number equal to the number of
\* answers in its transcript.  Readiness declared by the model is the
\* first-visit answer after which the generated question carries
\* ASSESSMENT_READY: that answer completes the interview, with the same count.
C27_CompletedCountsAnswers ==
    /\ \A kind \in Kinds : \A s \in DOMAIN Table(kind) :
           Table(kind)[s].status = COMPLETED
           => Table(kind)[s].question_number
                  = Len(Table(kind)[s].conversation_history)
    /\ (FirstVisitAnswered /\ SentinelReturned)
       => /\ last.sid \in DOMAIN interview_sessions
          /\ interview_sessions[last.sid].status = COMPLETED
          /\ interview_sessions[last.sid].question_number
                 = Len(interview_sessions[last.sid].conversation_history)

\* C28: at most one pre-screening record per completed interview, immutable
\* once created.  A generate_assessment call that succeeds right after a
\* successful generate_assessment call for the same session id (so for the
\* same completed interview) leaves the stored record as the first call
\* stored it.
C28_SingleRecord ==
    [][ \A kind \in Kinds :
          (/\ last.op = AssessOp(kind) /\ last.http = 200
           /\ last'.op = AssessOp(kind) /\ last'.http = 200
           /\ last'.sid = last.sid
           /\ last.sid \in DOMAIN sessions
           /\ last.sid \in DOMAIN sessions'
           /\ sessions[last.sid].prescreening_data # NoRecord)
          => sessions'[last.sid].prescreening_data
                 = sessions[last.sid].prescreening_data
      ]_vars

\* C29: no control token of the generator is surfaced as a question of a
\* follow-up interview.  When the follow-up generator returns its early-stop
\* marker INTERVIEW_COMPLETE, neither start_interview nor submit_answer
\* returns a continuation outcome whose question carries the marker.
C29_MarkerNotSurfaced ==
    (/\ last.op \in { StartOp(FollowUp), SubmitOp(FollowUp) }
     /\ last.http = 200
     /\ ~last.interview_complete)
    => "INTERVIEW_COMPLETE" \notin Tokens(last.question)

\* The last request was a start_interview or submit_answer that succeeded.
Answered200 ==
    /\ last.op \in { StartOp(k) : k \in Kinds } \cup { SubmitOp(k) : k \in Kinds }
    /\ last.http = 200

\* C30 (as stated): in every outcome of start_interview and submit_answer,
\* completion_percent is 100 only if interview_complete is true; a
\* continuation outcome, which carries a next question, reports less than 100.
C30_FullOnlyWhenComplete ==
    Answered200 =>
        /\ last.completion_percent = 100 => last.interview_complete
        /\ (~last.interview_complete /\ last.question # None)
           => last.completion_percent < 100

\* C30 (amended): a completion outcome reports 100; a continuation outcome
\* reports min(question_number / max_questions, 1) * 100, which is below 100
\* while question_number < max_questions and is 100 for the continuation that
\* issues the last question of the budget, with interview_complete false;
\* start_interview reports 0.
C30_FullWhenCompleteOrLastQuestion ==
    Answered200 =>
        /\ last.completion_percent = 100
           <=> (last.interview_complete
                \/ last.question_number >= FollowupMaxQuestions)
        /\ last.op \in { StartOp(k) : k \in Kinds } => last.completion_percent = 0
        /\ (/\ last.op \in { SubmitOp(k) : k \in Kinds }
            /\ ~last.interview_complete
            /\ last.question_number < FollowupMaxQuestions)
           => /\ last.completion_percent < 100
              /\ last.completion_percent * FollowupMaxQuestions
                     <= last.question_number * 100
              /\ (last.completion_percent + 1) * FollowupMaxQuestions
                     > last.question_number * 100

\* The sixth question has just been issued: the interview is still open and
\* the outcome reports 100 percent.
C30_Witness ==
    /\ last.op = SubmitOp(FollowUp)
    /\ last.http = 200
    /\ ~last.interview_complete
    /\ last.question # None
    /\ last.question_number = FollowupMaxQuestions
    /\ last.completion_percent = 100
    /\ followup_interview_sessions[last.sid].status = ACTIVE

====
